---- MODULE Spec2Model ----
(***************************************************************************)
(* Model of utils/create_dependency_mapping.py: the name resolver          *)
(* (get_model_name_from_filename), the import extractor                    *)
(* (extract_classes_and_imports), the raw dependency map                   *)
(* (map_dependencies) and the level-peeling topological sort               *)
(* (topological_sort), as driven by find_priority_list.                    *)
(*                                                                         *)
(* Strings are TLA+ strings; every string operation of the source is       *)
(* computed character by character with Len, SubSeq and \o.                *)
(***************************************************************************)
EXTENDS Integers, Sequences, FiniteSets, TLC

VARIABLES
    py_files,       \* find_priority_list's argument: a list of file paths
    source,         \* per file path, the import statements of its syntax tree
    dependencies,   \* map_dependencies' defaultdict, in insertion order
    nodes,          \* topological_sort: the tracked entity names
    graph,          \* topological_sort: entity -> remaining dependencies
    name_mapping,   \* topological_sort: entity -> original file key
    sorting_list,   \* topological_sort: the entities emitted so far
    iterations,     \* number of passes of the while loop taken so far
    ordered_files,  \* the list find_priority_list returns
    pc,             \* position of the call of find_priority_list
    err,            \* the exception that ended the call, "" if none
    filename,       \* argument of a direct call of get_model_name_from_filename
    model_name,     \* what that call returned or raised
    nr_pc           \* position of that call

vars == <<py_files, source, dependencies, nodes, graph, name_mapping,
          sorting_list, iterations, ordered_files, pc, err,
          filename, model_name, nr_pc>>

sortVars == <<py_files, source, dependencies, nodes, graph, name_mapping,
              sorting_list, iterations, ordered_files, pc, err>>

resolverVars == <<filename, model_name, nr_pc>>

(***************************************************************************)
(* Python's str methods, as far as the source uses them.                   *)
(***************************************************************************)

\* s[i:] with i counted from 1
Drop(s, i) == SubSeq(s, i, Len(s))

\* s.startswith(p)
StartsWith(s, p) == Len(s) >= Len(p) /\ SubSeq(s, 1, Len(p)) = p

\* s.endswith(p)
EndsWith(s, p) == Len(s) >= Len(p) /\ SubSeq(s, Len(s) - Len(p) + 1, Len(s)) = p

\* the positions at which sub occurs in s
Occurrences(s, sub) ==
    {j \in 1..(Len(s) - Len(sub) + 1) : SubSeq(s, j, j + Len(sub) - 1) = sub}

\* s.find(sub) + 1: the first occurrence, 0 if none
Find(s, sub) ==
    LET occ == Occurrences(s, sub)
    IN  IF occ = {} THEN 0 ELSE CHOOSE j \in occ : \A k \in occ : j <= k

\* s.rfind(sub) + 1: the last occurrence, 0 if none
RFind(s, sub) ==
    LET occ == Occurrences(s, sub)
    IN  IF occ = {} THEN 0 ELSE CHOOSE j \in occ : \A k \in occ : j >= k

\* sub in s
Contains(s, sub) == Occurrences(s, sub) # {}

\* s.replace(old, "", 1): the first occurrence of old removed
RemoveFirst(s, old) ==
    LET j == Find(s, old)
    IN  IF j = 0 THEN s ELSE SubSeq(s, 1, j - 1) \o Drop(s, j + Len(old))

\* s.replace(old, ""): every occurrence of old removed, scanning left to right
RECURSIVE RemoveAll(_, _)
RemoveAll(s, old) ==
    LET j == Find(s, old)
    IN  IF j = 0 THEN s
        ELSE SubSeq(s, 1, j - 1) \o RemoveAll(Drop(s, j + Len(old)), old)

\* os.path.basename(s): what follows the last "/"
Basename(s) == Drop(s, RFind(s, "/") + 1)

\* s.split(".")[-1]: what follows the last "."
LastDotted(s) == Drop(s, RFind(s, ".") + 1)

(***************************************************************************)
(* get_model_name_from_filename                                            *)
(***************************************************************************)

FILE_TYPE_PREFIXES ==
    <<"modular_", "modeling_", "configuration_", "tokenization_",
      "processing_", "image_processing_", "feature_extractor_">>

\* a returned value, or the exception raised instead
Returned(v) == [raised |-> "", value |-> v]
Raised(e) == [raised |-> e, value |-> ""]

\* lines 20-24: extension, directories and dotted package path stripped
modified_filename(name) ==
    LET noext == IF EndsWith(name, ".py") THEN SubSeq(name, 1, Len(name) - 3)
                 ELSE name
    IN  LastDotted(Basename(noext))

\* lines 26-30: the first prefix of the table the token starts with, "" if none
file_prefix(token) ==
    LET hits == {i \in 1..Len(FILE_TYPE_PREFIXES) :
                    StartsWith(token, FILE_TYPE_PREFIXES[i])}
    IN  IF hits = {} THEN ""
        ELSE FILE_TYPE_PREFIXES[CHOOSE i \in hits : \A k \in hits : i <= k]

\* StripKind without its test of the kind: "_fast" stripped for every prefix
StripKind_AnyKind(token, prefix) ==
    LET stripped == RemoveFirst(token, prefix)
    IN  IF EndsWith(stripped, "_fast")
        THEN SubSeq(stripped, 1, Len(stripped) - 5)
        ELSE stripped

\* lines 35-38: the prefix removed, and "_fast" too for an image processor
StripKind(token, prefix) ==
    LET stripped == RemoveFirst(token, prefix)
    IN  IF prefix = "image_processing_" /\ EndsWith(stripped, "_fast")
        THEN SubSeq(stripped, 1, Len(stripped) - 5)
        ELSE stripped

get_model_name_from_filename(name) ==
    LET token == modified_filename(name)
        prefix == file_prefix(token)
    IN  IF prefix = "" THEN Raised("ValueError")
        ELSE Returned(StripKind(token, prefix))

(***************************************************************************)
(* Inputs: the files find_priority_list may be given and the import        *)
(* statements their syntax trees may hold.                                 *)
(***************************************************************************)

MaxFiles == 2       \* longest list of files passed to find_priority_list
MaxImports == 2     \* most import statements in all the files together
MaxParts == 3       \* most pieces of a file name given to the name resolver
MaxIterations == MaxFiles + 2   \* the pass counter stops counting here

FilePaths ==
    {"modular_a.py", "models/b/modular_b.py", "modular_c.py",
     "modular_modular_a.py", "utils_helpers.py"}

\* an ast.ImportFrom node with its module ("" stands for None, as in
\* `from . import x`), or an ast.Import node with the name it imports
ImportFrom(m) == [type |-> "ImportFrom", module |-> m]
Import(m) == [type |-> "Import", module |-> m]

ImportStatements ==
    {ImportFrom("a.modeling_a"),
     ImportFrom("transformers.models.b.modeling_b"),
     ImportFrom("c.modeling_c"),
     ImportFrom("transformers.models.d.configuration_d"),
     ImportFrom("transformers.models.llama"),
     ImportFrom("b.configuration_b"),
     ImportFrom(""),
     Import("transformers.models.a.modeling_a")}

\* the lists of at most n distinct elements of S
RECURSIVE ListsOf(_, _)
ListsOf(S, n) ==
    {<<>>} \cup (IF n = 0 THEN {}
                 ELSE UNION {{<<x>> \o l : l \in ListsOf(S \ {x}, n - 1)} : x \in S})

\* the subsets of S of at most k elements
RECURSIVE SubsetsUpTo(_, _)
SubsetsUpTo(S, k) ==
    IF k = 0 \/ S = {} THEN {{}}
    ELSE LET x == CHOOSE y \in S : TRUE
         IN  SubsetsUpTo(S \ {x}, k)
                \cup {T \cup {x} : T \in SubsetsUpTo(S \ {x}, k - 1)}

Range(l) == {l[i] : i \in 1..Len(l)}

\* the permutations of a finite set, as lists
Orderings(S) == {l \in ListsOf(S, Cardinality(S)) : Len(l) = Cardinality(S)}

EmptyMap == [n \in {} |-> {}]

(***************************************************************************)
(* extract_classes_and_imports and map_dependencies                        *)
(***************************************************************************)

\* lines 75-80: the modules of the import statements that are kept
extract_classes_and_imports(file_path) ==
    {LET module == IF node.type = "ImportFrom" THEN node.module ELSE ""
     IN  module :
        node \in {n \in source[file_path] :
                    LET module == IF n.type = "ImportFrom" THEN n.module ELSE ""
                    IN  /\ module # ""
                        /\ \/ Contains(module, ".modeling_")
                           \/ Contains(module, "transformers.models")}}

\* lines 84-92: a defaultdict, so a key exists only for a file that had
\* at least one module added; keys in the order of py_files
RECURSIVE map_dependencies(_)
map_dependencies(files) ==
    IF files = <<>> THEN <<>>
    ELSE LET file_path == Head(files)
             class_to_file == extract_classes_and_imports(file_path)
             rest == map_dependencies(Tail(files))
         IN  IF class_to_file = {} THEN rest
             ELSE <<[key |-> file_path, value |-> class_to_file]>> \o rest

Keys(deps) == {deps[i].key : i \in 1..Len(deps)}

(***************************************************************************)
(* topological_sort                                                        *)
(***************************************************************************)

\* lines 46 and 51: node.rsplit("modular_", 1)[1].replace(".py", "")
NodeName(node) ==
    LET j == RFind(node, "modular_")
    IN  IF j = 0 THEN Raised("IndexError")
        ELSE Returned(RemoveAll(Drop(node, j + Len("modular_")), ".py"))

\* line 46
NodesOf(deps) == {NodeName(k).value : k \in Keys(deps)}

\* Filtered without `dep != node_name`
Filtered_NoSelfCheck(dep_names, tracked, node_name) ==
    {dep \in dep_names : dep \in tracked}

\* line 53: the dependencies kept as edges of node_name
Filtered(dep_names, tracked, node_name) ==
    {dep \in dep_names : dep \in tracked /\ dep # node_name}

\* lines 50-55 for the first i items of the map: a later item overwrites
\* the graph entry and the name mapping of an earlier one of the same name
RECURSIVE BuildLoop(_, _)
BuildLoop(deps, i) ==
    IF i = 0 THEN [graph |-> EmptyMap, name_mapping |-> [n \in {} |-> ""]]
    ELSE LET before == BuildLoop(deps, i - 1)
             node == deps[i].key
             node_name == NodeName(node).value
             dep_names == {get_model_name_from_filename(dep).value :
                             dep \in deps[i].value}
             edges == Filtered(dep_names, NodesOf(deps), node_name)
             names == DOMAIN before.graph \cup {node_name}
         IN  [graph |-> [n \in names |->
                            IF n = node_name THEN edges ELSE before.graph[n]],
              name_mapping |-> [n \in names |->
                            IF n = node_name THEN node
                            ELSE before.name_mapping[n]]]

\* line 46 raises for a key that holds no "modular_"
RaisesIndexError(deps) == \E k \in Keys(deps) : NodeName(k).raised # ""

\* line 52 raises for a dependency the name resolver rejects
RaisesValueError(deps) ==
    \E i \in 1..Len(deps) : \E dep \in deps[i].value :
        get_model_name_from_filename(dep).raised # ""

\* leaf_nodes with `<= 1` for `== 0`
leaf_nodes_AtMostOne(g) == {node \in DOMAIN g : Cardinality(g[node]) <= 1}

\* line 60
leaf_nodes(g) == {node \in DOMAIN g : Cardinality(g[node]) = 0}

\* RemoveLeaves without `deps - leaf_nodes`: only the keys are removed
RemoveLeaves_KeysOnly(g, leaves) ==
    [node \in DOMAIN g \ leaves |-> g[node]]

\* line 64
RemoveLeaves(g, leaves) ==
    [node \in DOMAIN g \ leaves |-> g[node] \ leaves]

(***************************************************************************)
(* find_priority_list, step by step                                        *)
(***************************************************************************)

ResolverIdle ==
    /\ filename = ""
    /\ model_name = Returned("")
    /\ nr_pc = "idle"

Init ==
    /\ py_files \in ListsOf(FilePaths, MaxFiles)
    /\ \E held \in SubsetsUpTo(Range(py_files) \X ImportStatements, MaxImports) :
          source = [f \in FilePaths |-> {h[2] : h \in {g \in held : g[1] = f}}]
    /\ dependencies = <<>>
    /\ nodes = {}
    /\ graph = EmptyMap
    /\ name_mapping = [n \in {} |-> ""]
    /\ sorting_list = <<>>
    /\ iterations = 0
    /\ ordered_files = <<>>
    /\ pc = "map_dependencies"
    /\ err = ""
    /\ ResolverIdle

\* line 106
MapDependencies ==
    /\ pc = "map_dependencies"
    /\ dependencies' = map_dependencies(py_files)
    /\ pc' = "topological_sort"
    /\ UNCHANGED <<py_files, source, nodes, graph, name_mapping, sorting_list,
                   iterations, ordered_files, err>>
    /\ UNCHANGED resolverVars

\* line 46 raises: the call ends with IndexError
BuildGraphIndexError ==
    /\ pc = "topological_sort"
    /\ RaisesIndexError(dependencies)
    /\ pc' = "error"
    /\ err' = "IndexError"
    /\ UNCHANGED <<py_files, source, dependencies, nodes, graph, name_mapping,
                   sorting_list, iterations, ordered_files>>
    /\ UNCHANGED resolverVars

\* line 52 raises: the call ends with ValueError
BuildGraphValueError ==
    /\ pc = "topological_sort"
    /\ ~RaisesIndexError(dependencies)
    /\ RaisesValueError(dependencies)
    /\ pc' = "error"
    /\ err' = "ValueError"
    /\ UNCHANGED <<py_files, source, dependencies, nodes, graph, name_mapping,
                   sorting_list, iterations, ordered_files>>
    /\ UNCHANGED resolverVars

\* BuildGraph writing each filtered set back into the map it was given
BuildGraph_InPlace ==
    /\ pc = "topological_sort"
    /\ ~RaisesIndexError(dependencies)
    /\ ~RaisesValueError(dependencies)
    /\ nodes' = NodesOf(dependencies)
    /\ LET built == BuildLoop(dependencies, Len(dependencies))
       IN  /\ graph' = built.graph
           /\ name_mapping' = built.name_mapping
    /\ dependencies' =
          [i \in 1..Len(dependencies) |->
              [key |-> dependencies[i].key,
               value |-> Filtered({get_model_name_from_filename(dep).value :
                                      dep \in dependencies[i].value},
                                  NodesOf(dependencies),
                                  NodeName(dependencies[i].key).value)]]
    /\ sorting_list' = <<>>
    /\ pc' = "while"
    /\ UNCHANGED <<py_files, source, iterations, ordered_files, err>>
    /\ UNCHANGED resolverVars

\* lines 46-57
BuildGraph ==
    /\ pc = "topological_sort"
    /\ ~RaisesIndexError(dependencies)
    /\ ~RaisesValueError(dependencies)
    /\ nodes' = NodesOf(dependencies)
    /\ LET built == BuildLoop(dependencies, Len(dependencies))
       IN  /\ graph' = built.graph
           /\ name_mapping' = built.name_mapping
    /\ sorting_list' = <<>>
    /\ pc' = "while"
    /\ UNCHANGED <<py_files, source, dependencies, iterations, ordered_files, err>>
    /\ UNCHANGED resolverVars

\* lines 58-64: one pass of the loop; list(leaf_nodes) lists a set in an
\* order the language does not fix
PeelStep ==
    /\ pc = "while"
    /\ Cardinality(DOMAIN graph) > 0
    /\ \E wave \in Orderings(leaf_nodes(graph)) :
          sorting_list' = sorting_list \o wave
    /\ graph' = RemoveLeaves(graph, leaf_nodes(graph))
    /\ iterations' = IF iterations < MaxIterations THEN iterations + 1
                     ELSE iterations
    /\ UNCHANGED <<py_files, source, dependencies, nodes, name_mapping,
                   ordered_files, pc, err>>
    /\ UNCHANGED resolverVars

\* lines 58, 66 and 107-108
Return ==
    /\ pc = "while"
    /\ Cardinality(DOMAIN graph) = 0
    /\ ordered_files' = [i \in 1..Len(sorting_list) |-> name_mapping[sorting_list[i]]]
    /\ pc' = "done"
    /\ UNCHANGED <<py_files, source, dependencies, nodes, graph, name_mapping,
                   sorting_list, iterations, err>>
    /\ UNCHANGED resolverVars

Next ==
    \/ MapDependencies
    \/ BuildGraphIndexError
    \/ BuildGraphValueError
    \/ BuildGraph
    \/ PeelStep
    \/ Return

Spec == Init /\ [][Next]_vars

(***************************************************************************)
(* get_model_name_from_filename called on its own, on file names put       *)
(* together from a leading path, a kind prefix and a few pieces.           *)
(***************************************************************************)

Leads == {"", "src/", "pkg."}

Kinds == Range(FILE_TYPE_PREFIXES) \cup {"utils_"}

Pieces == {"a", "b", ".", "/", ".py", "_fast", "modular_"}

\* the concatenations of 1 to n pieces
RECURSIVE Suffixes(_)
Suffixes(n) ==
    IF n = 0 THEN {}
    ELSE Pieces \cup {t \o q : t \in Suffixes(n - 1), q \in Pieces}

SortIdle ==
    /\ py_files = <<>>
    /\ source = [f \in FilePaths |-> {}]
    /\ dependencies = <<>>
    /\ nodes = {}
    /\ graph = EmptyMap
    /\ name_mapping = [n \in {} |-> ""]
    /\ sorting_list = <<>>
    /\ iterations = 0
    /\ ordered_files = <<>>
    /\ pc = "idle"
    /\ err = ""

ResolveInit ==
    /\ filename \in {lead \o kind \o rest :
                        lead \in Leads, kind \in Kinds, rest \in Suffixes(MaxParts)}
    /\ model_name = Returned("")
    /\ nr_pc = "call"
    /\ SortIdle

\* lines 17-40, the call returns
ResolveReturns ==
    /\ nr_pc = "call"
    /\ get_model_name_from_filename(filename).raised = ""
    /\ model_name' = get_model_name_from_filename(filename)
    /\ nr_pc' = "returned"
    /\ UNCHANGED filename
    /\ UNCHANGED sortVars

\* line 33, the call raises
ResolveRaises ==
    /\ nr_pc = "call"
    /\ get_model_name_from_filename(filename).raised # ""
    /\ model_name' = get_model_name_from_filename(filename)
    /\ nr_pc' = "raised"
    /\ UNCHANGED filename
    /\ UNCHANGED sortVars

ResolveNext == ResolveReturns \/ ResolveRaises

ResolveSpec == ResolveInit /\ [][ResolveNext]_vars

(***************************************************************************)
(* Vocabulary of the properties.                                           *)
(***************************************************************************)

\* the filtered graph as built from the raw dependency map of the files
FilteredGraph ==
    LET raw == map_dependencies(py_files)
    IN  BuildLoop(raw, Len(raw)).graph

\* what can be reached from the set S in g by following at most k more edges
RECURSIVE Closure(_, _, _)
Closure(g, S, k) ==
    IF k = 0 THEN S
    ELSE Closure(g, S \cup UNION {g[m] : m \in S \cap DOMAIN g}, k - 1)

Acyclic(g) ==
    \A n \in DOMAIN g : n \notin Closure(g, g[n], Cardinality(DOMAIN g))

\* the first position of x in the list l, 0 if absent
IndexOf(l, x) ==
    IF x \in Range(l) THEN CHOOSE i \in 1..Len(l) : l[i] = x /\ \A k \in 1..(i - 1) : l[k] # x
    ELSE 0

Count(l, x) == Cardinality({i \in 1..Len(l) : l[i] = x})

IsPermutation(l, m) ==
    /\ Len(l) = Len(m)
    /\ \A x \in Range(l) \cup Range(m) : Count(l, x) = Count(m, x)

Sorting == pc \in {"while", "done"}

(***************************************************************************)
(* C1. When the call returns (so the filtered graph was acyclic), every    *)
(* edge "A depends on B" of the filtered graph has B's file at a strictly  *)
(* smaller index of the returned list than A's file.                       *)
(***************************************************************************)
C1_TopologicalOrder ==
    (pc = "done" /\ Acyclic(FilteredGraph)) =>
        \A A \in DOMAIN FilteredGraph : \A B \in FilteredGraph[A] :
            /\ IndexOf(ordered_files, name_mapping[B]) > 0
            /\ IndexOf(ordered_files, name_mapping[A]) > 0
            /\ IndexOf(ordered_files, name_mapping[B])
                  < IndexOf(ordered_files, name_mapping[A])

\* a returned order over a graph that has an edge
C1_Witness ==
    /\ pc = "done"
    /\ \E A \in DOMAIN FilteredGraph : FilteredGraph[A] # {}
    /\ Len(ordered_files) >= 2

(***************************************************************************)
(* C2. The returned list is a permutation of the list of files passed in.  *)
(***************************************************************************)
C2_OutputIsPermutation ==
    pc = "done" => IsPermutation(ordered_files, py_files)

(***************************************************************************)
(* C3. On a cyclic filtered graph the loop does not run on: it takes no    *)
(* more passes than there are tracked entities, and the call then ends     *)
(* with an error, not with a result.                                       *)
(***************************************************************************)
C3_CycleEndsInError ==
    (Sorting /\ ~Acyclic(FilteredGraph)) =>
        /\ iterations <= Cardinality(nodes)
        /\ pc # "done"

(***************************************************************************)
(* C4. A kept dependency that the name resolver cannot resolve never ends  *)
(* the call with an exception.                                             *)
(***************************************************************************)
C4_UnresolvableDependencyDropped ==
    (/\ pc \in {"while", "done", "error"}
     /\ ~RaisesIndexError(dependencies)
     /\ RaisesValueError(dependencies))
        => pc # "error"

(***************************************************************************)
(* C5. Every dependency set of the graph holds only tracked entity names   *)
(* and never the entity's own name, from the build on through every pass   *)
(* of the loop.                                                            *)
(***************************************************************************)
C5_EdgesTrackedNoSelfLoop ==
    \A n \in DOMAIN graph : graph[n] \subseteq nodes /\ n \notin graph[n]

\* a file that imports its own entity and an untracked one, its node in the graph
C5_Witness ==
    /\ pc = "while"
    /\ \E i \in 1..Len(dependencies) :
          LET own == NodeName(dependencies[i].key).value
              names == {get_model_name_from_filename(d).value :
                          d \in dependencies[i].value}
          IN  /\ own \in DOMAIN graph
              /\ own \in names
              /\ \E d \in names : d \notin nodes

(***************************************************************************)
(* C8. When the call returns, the raw dependency map holds, for every file *)
(* that had a kept import, exactly the modules the extractor returned for  *)
(* it, the ones dropped from the filtered graph included.                  *)
(***************************************************************************)
C8_RawMapUnchanged ==
    pc = "done" =>
        /\ Keys(dependencies) =
              {f \in Range(py_files) : extract_classes_and_imports(f) # {}}
        /\ \A i \in 1..Len(dependencies) :
              dependencies[i].value =
                  extract_classes_and_imports(dependencies[i].key)

\* returned, with a raw dependency on an untracked entity still in the map
C8_Witness ==
    /\ pc = "done"
    /\ \E i \in 1..Len(dependencies) : \E d \in dependencies[i].value :
          get_model_name_from_filename(d).value \notin nodes

(***************************************************************************)
(* C9. On an acyclic filtered graph with N tracked entities, every pass    *)
(* removes at least one entity (so there are at most N passes), a          *)
(* non-empty graph always has a leaf, no entity is emitted twice, and at   *)
(* the end every tracked entity has been emitted exactly once.             *)
(***************************************************************************)
C9_PeelingTerminates ==
    (Sorting /\ Acyclic(FilteredGraph)) =>
        /\ iterations + Cardinality(DOMAIN graph) <= Cardinality(nodes)
        /\ iterations <= Cardinality(nodes)
        /\ DOMAIN graph # {} => leaf_nodes(graph) # {}
        /\ \A x \in Range(sorting_list) : Count(sorting_list, x) = 1
        /\ Range(sorting_list) \cup DOMAIN graph = nodes
        /\ pc = "done" => /\ Range(sorting_list) = nodes
                          /\ Len(sorting_list) = Cardinality(nodes)

\* two passes over two entities, one depending on the other
C9_Witness ==
    /\ pc = "done"
    /\ Cardinality(nodes) = 2
    /\ iterations = 2
    /\ Len(sorting_list) = 2

(***************************************************************************)
(* C7. When a file of the list has a name that starts with no recognized   *)
(* prefix, the call ends with the name resolver's ValueError: it neither   *)
(* returns nor ends with another exception.                                *)
(***************************************************************************)
C7_UnrecognizedFileAborts ==
    (/\ pc \in {"done", "error"}
     /\ \E i \in 1..Len(py_files) :
           get_model_name_from_filename(py_files[i]).raised # "")
        => (pc = "error" /\ err = "ValueError")

(***************************************************************************)
(* C10. The graph node of every file of the list is the name the name      *)
(* resolver returns for the file's path.                                   *)
(***************************************************************************)
C10_NodeIsResolvedName ==
    Sorting =>
        /\ nodes = {get_model_name_from_filename(k).value : k \in Keys(dependencies)}
        /\ \A k \in Keys(dependencies) :
              /\ get_model_name_from_filename(k).raised = ""
              /\ NodeName(k).value = get_model_name_from_filename(k).value

(***************************************************************************)
(* C6. The name resolver on a recognized prefix followed by a suffix.      *)
(***************************************************************************)

\* what the resolver is to return for prefix + suffix
Expected(prefix, suffix) ==
    IF prefix = "image_processing_" /\ EndsWith(suffix, "_fast")
    THEN SubSeq(suffix, 1, Len(suffix) - 5)
    ELSE suffix

\* a suffix with no "." and no "/" in it
Plain(suffix) == ~Contains(suffix, ".") /\ ~Contains(suffix, "/")

\* C6 as stated: for every recognized prefix p and every non-empty suffix
\* s, the resolver returns s for p + s, less a final "_fast" when p is the
\* image-processing prefix.
C6_AnySuffix ==
    nr_pc \in {"returned", "raised"} =>
        \A p \in Range(FILE_TYPE_PREFIXES) :
            (StartsWith(filename, p) /\ Len(filename) > Len(p)) =>
                model_name = Returned(Expected(p, Drop(filename, Len(p) + 1)))

\* C6 as amended: the same, for every non-empty suffix s that holds neither
\* a "." nor a "/".
C6_PlainSuffix ==
    nr_pc \in {"returned", "raised"} =>
        \A p \in Range(FILE_TYPE_PREFIXES) :
            (/\ StartsWith(filename, p)
             /\ Len(filename) > Len(p)
             /\ Plain(Drop(filename, Len(p) + 1))) =>
                model_name = Returned(Expected(p, Drop(filename, Len(p) + 1)))

\* the image-processing prefix with a "_fast" suffix, resolved
C6_Witness ==
    /\ nr_pc = "returned"
    /\ filename = "image_processing_a_fast"
    /\ model_name = Returned("a")

====
